---- MODULE Spec2Model ----
(***************************************************************************)
(* Crazy Ace (src/src/App.tsx): the game state held by the App component,  *)
(* its intent handlers (initGame, handlePlayerPlay, handleSuitPick,        *)
(* handleDraw) and the delayed opponent step scheduled by the "AI Logic"   *)
(* effect.  Cards are identified by their position in the ordered deck;    *)
(* 0 stands for null / undefined.                                          *)
(***************************************************************************)
EXTENDS Integers, Sequences, FiniteSets, TLC

\* ---------------------------------------------------------------- bounds
\* The deck holds the first DeckSize cards of the ordered deck; the program's
\* deck has all 52.
DeckSize == 8
\* Cards dealt to each hand; the program deals 10.
HandSize == 2
\* The shuffles considered take every a-th card of the ordered deck starting
\* at the b-th, for strides 3 <= a <= MaxMult and offsets 0 <= b <= MaxShift.
MaxMult == 5
MaxShift == 0
\* Longest opponent hand the opponent's decision is examined on in isolation.
MaxAiHand == 4

\* ------------------------------------------------------------- the cards
SUITS == <<"hearts", "diamonds", "clubs", "spades">>

Suit == {SUITS[i] : i \in 1..Len(SUITS)}

\* Ranks are numbered in deck order; the Ace ('A') comes first.
Ace == 1

Card == 1..DeckSize

NoCard == 0

NoSuit == "null"

SuitOf(c) == SUITS[((c - 1) % Len(SUITS)) + 1]

RankOf(c) == ((c - 1) \div Len(SUITS)) + 1

createDeck == [i \in 1..DeckSize |-> i]

RECURSIVE GCD(_, _)
GCD(a, b) == IF b = 0 THEN a ELSE GCD(b, a % b)

\* The results shuffleDeck may return that the model explores.
Shuffles(d) ==
  { [i \in 1..Len(d) |-> d[((a * (i - 1) + b) % Len(d)) + 1]] :
      a \in {m \in 3..MaxMult : GCD(m, Len(d)) = 1}, b \in 0..MaxShift }

\* ------------------------------------------------------------ sequences
Range(s) == {s[i] : i \in 1..Len(s)}

\* Array.prototype.slice(from) / slice(from, to), 0-based as in the source.
Slice(s, from, to) == SubSeq(s, from + 1, IF to < Len(s) THEN to ELSE Len(s))

\* Variant: the filter keeps every card.
WithoutKeepsCard(hand, card) == hand

\* hand.filter(c => c.id !== card.id)
Without(hand, card) == SelectSeq(hand, LAMBDA c : c # card)

RemoveAt(s, i) == SubSeq(s, 1, i - 1) \o SubSeq(s, i + 1, Len(s))

\* ---------------------------------------------------------------- state
VARIABLES
  deck,            \* draw pile, consumed from the front
  playerHand,
  aiHand,
  discardPile,
  currentSuit,     \* NoSuit while null
  turn,            \* "player" | "ai"
  gameStatus,      \* "start" | "playing" | "won" | "lost"
  showSuitPicker,
  pendingAceCard,  \* NoCard while null
  message,         \* which message text is shown
  isAiThinking,
  timers,          \* pending setTimeout callbacks, each with the values it closed over
  confetti,        \* confetti() calls since the last initGame
  intent           \* the intent or callback handled last, and the turn and status it met

\* The component's state.
state == <<deck, playerHand, aiHand, discardPile, currentSuit, turn, gameStatus,
           showSuitPicker, pendingAceCard, message, isAiThinking, timers, confetti>>

vars == <<state, intent>>

Intent(op, card, suit) ==
  [op |-> op, card |-> card, suit |-> suit, turn |-> turn, status |-> gameStatus]

\* const topDiscard = useMemo(() => discardPile[discardPile.length - 1], ...)
TopOf(pile) == IF Len(pile) = 0 THEN NoCard ELSE pile[Len(pile)]

topDiscard == TopOf(discardPile)

\* Variant: a card of the top discard's rank is not accepted.
canPlayInSuitOnly(card, top, suit) ==
  IF top = NoCard THEN FALSE
  ELSE IF RankOf(card) = Ace THEN TRUE
  ELSE SuitOf(card) = suit

\* canPlay of a render whose topDiscard is top and whose currentSuit is suit.
canPlayIn(card, top, suit) ==
  IF top = NoCard THEN FALSE
  ELSE IF RankOf(card) = Ace THEN TRUE
  ELSE SuitOf(card) = suit \/ RankOf(card) = RankOf(top)

canPlay(card) == canPlayIn(card, topDiscard, currentSuit)

\* Variant: the first to empty their hand wins.
checkGameOverEmptyWins(pHand, aHand) ==
  IF Len(pHand) = 0 THEN "won"
  ELSE IF Len(aHand) = 0 THEN "lost"
  ELSE "none"

\* checkGameOver: "lost", "won", or "none" when it returns false.
checkGameOver(pHand, aHand) ==
  IF Len(pHand) = 0 THEN "lost"
  ELSE IF Len(aHand) = 0 THEN "won"
  ELSE "none"

\* The values the timeout callback closes over.
Closure(ah, ph, d, top, suit) ==
  [aiHand |-> ah, playerHand |-> ph, deck |-> d, topDiscard |-> top, currentSuit |-> suit]

\* Variant: the effect returns no cleanup, so earlier timers stay scheduled.
AiEffectNoCleanup(prev, t, g, cl) ==
  IF t = "ai" /\ g = "playing" THEN Append(prev, cl) ELSE prev

\* Variant: the effect schedules the timer on the opponent's turn whatever the
\* status of the game.
AiEffectAnyStatus(prev, t, g, cl) ==
  IF t = "ai" THEN <<cl>> ELSE << >>

\* The AI Logic effect after a commit that changed one of its dependencies:
\* the previous run's cleanup clears its timer, then the body schedules a new
\* one when it is the opponent's turn in a running game.
AiEffect(prev, t, g, cl) ==
  IF t = "ai" /\ g = "playing" THEN <<cl>> ELSE << >>

Init ==
  /\ deck = << >>
  /\ playerHand = << >>
  /\ aiHand = << >>
  /\ discardPile = << >>
  /\ currentSuit = NoSuit
  /\ turn = "player"
  /\ gameStatus = "start"
  /\ showSuitPicker = FALSE
  /\ pendingAceCard = NoCard
  /\ message = "welcome"
  /\ isAiThinking = FALSE
  /\ timers = << >>
  /\ confetti = 0
  /\ intent = Intent("none", NoCard, NoSuit)

\* Variant: a pending Ace and the suit picker survive the new deal.
initGameKeepsPending(fullDeck) ==
  LET pHand == Slice(fullDeck, 0, HandSize)
      aHand == Slice(fullDeck, HandSize, 2 * HandSize)
      initialDiscard == fullDeck[2 * HandSize + 1]
      remainingDeck == Slice(fullDeck, 2 * HandSize + 1, Len(fullDeck))
  IN /\ playerHand' = pHand
     /\ aiHand' = aHand
     /\ discardPile' = <<initialDiscard>>
     /\ deck' = remainingDeck
     /\ currentSuit' = SuitOf(initialDiscard)
     /\ turn' = "player"
     /\ gameStatus' = "playing"
     /\ UNCHANGED <<showSuitPicker, pendingAceCard>>
     /\ message' = "yourTurn"
     /\ isAiThinking' = FALSE
     /\ timers' = AiEffect(timers, turn', gameStatus',
                           Closure(aiHand', playerHand', deck', TopOf(discardPile'), currentSuit'))
     /\ confetti' = 0

\* initGame (start and restart buttons), with fullDeck the shuffled deck.
initGame(fullDeck) ==
  LET pHand == Slice(fullDeck, 0, HandSize)
      aHand == Slice(fullDeck, HandSize, 2 * HandSize)
      initialDiscard == fullDeck[2 * HandSize + 1]
      remainingDeck == Slice(fullDeck, 2 * HandSize + 1, Len(fullDeck))
  IN /\ playerHand' = pHand
     /\ aiHand' = aHand
     /\ discardPile' = <<initialDiscard>>
     /\ deck' = remainingDeck
     /\ currentSuit' = SuitOf(initialDiscard)
     /\ turn' = "player"
     /\ gameStatus' = "playing"
     /\ showSuitPicker' = FALSE
     /\ pendingAceCard' = NoCard
     /\ message' = "yourTurn"
     /\ isAiThinking' = FALSE
     /\ timers' = AiEffect(timers, turn', gameStatus',
                           Closure(aiHand', playerHand', deck', TopOf(discardPile'), currentSuit'))
     /\ confetti' = 0

\* The start button is rendered only while gameStatus === 'start'.
startGame ==
  /\ gameStatus = "start"
  /\ \E fullDeck \in Shuffles(createDeck) : initGame(fullDeck)
  /\ intent' = Intent("start", NoCard, NoSuit)

\* The header's restart button and the game-over dialog's "Play Again".
restart ==
  /\ \E fullDeck \in Shuffles(createDeck) : initGame(fullDeck)
  /\ intent' = Intent("restart", NoCard, NoSuit)

\* The state updates of checkGameOver(pHand, aHand) followed by
\* if (!checkGameOver(...)) { setTurn(nextTurn) }, the message left being msg
\* unless the game ended.
EndOrPass(over, nextTurn, msg) ==
  /\ gameStatus' = IF over = "none" THEN gameStatus ELSE over
  /\ confetti' = IF over = "won" THEN confetti + 1 ELSE confetti
  /\ turn' = IF over = "none" THEN nextTurn ELSE turn
  /\ message' = IF over = "lost" THEN "youLose"
                ELSE IF over = "won" THEN "youWin" ELSE msg

\* The AI Logic effect re-run after a commit that changed its dependencies;
\* thinking is the value the handler itself left in isAiThinking.
RunAiEffect(prev, thinking) ==
  /\ timers' = AiEffect(prev, turn', gameStatus',
                        Closure(aiHand', playerHand', deck', TopOf(discardPile'), currentSuit'))
  /\ isAiThinking' = IF turn' = "ai" /\ gameStatus' = "playing" THEN TRUE ELSE thinking

\* Variant: an Ace is played at once like any other card.
handlePlayerPlayAceAtOnce(card) ==
  IF turn # "player" \/ gameStatus # "playing" \/ ~canPlay(card)
  THEN UNCHANGED state
  ELSE IF FALSE
  THEN /\ pendingAceCard' = card
       /\ showSuitPicker' = TRUE
       /\ UNCHANGED <<deck, playerHand, aiHand, discardPile, currentSuit, turn,
                      gameStatus, message, isAiThinking, timers, confetti>>
  ELSE LET newHand == Without(playerHand, card)
       IN /\ playerHand' = newHand
          /\ discardPile' = Append(discardPile, card)
          /\ currentSuit' = SuitOf(card)
          /\ EndOrPass(checkGameOver(newHand, aiHand), "ai", "aiThinking")
          /\ UNCHANGED <<deck, aiHand, showSuitPicker, pendingAceCard>>
          /\ RunAiEffect(timers, isAiThinking)

handlePlayerPlay(card) ==
  IF turn # "player" \/ gameStatus # "playing" \/ ~canPlay(card)
  THEN UNCHANGED state
  ELSE IF RankOf(card) = Ace
  THEN /\ pendingAceCard' = card
       /\ showSuitPicker' = TRUE
       /\ UNCHANGED <<deck, playerHand, aiHand, discardPile, currentSuit, turn,
                      gameStatus, message, isAiThinking, timers, confetti>>
  ELSE LET newHand == Without(playerHand, card)
       IN /\ playerHand' = newHand
          /\ discardPile' = Append(discardPile, card)
          /\ currentSuit' = SuitOf(card)
          /\ EndOrPass(checkGameOver(newHand, aiHand), "ai", "aiThinking")
          /\ UNCHANGED <<deck, aiHand, showSuitPicker, pendingAceCard>>
          /\ RunAiEffect(timers, isAiThinking)

\* Variant: the pending Ace keeps its own suit.
handleSuitPickOwnSuit(suit) ==
  IF pendingAceCard = NoCard
  THEN UNCHANGED state
  ELSE LET newHand == Without(playerHand, pendingAceCard)
       IN /\ playerHand' = newHand
          /\ discardPile' = Append(discardPile, pendingAceCard)
          /\ currentSuit' = SuitOf(pendingAceCard)
          /\ showSuitPicker' = FALSE
          /\ pendingAceCard' = NoCard
          /\ EndOrPass(checkGameOver(newHand, aiHand), "ai", "changedSuit")
          /\ UNCHANGED <<deck, aiHand>>
          /\ RunAiEffect(timers, isAiThinking)

handleSuitPick(suit) ==
  IF pendingAceCard = NoCard
  THEN UNCHANGED state
  ELSE LET newHand == Without(playerHand, pendingAceCard)
       IN /\ playerHand' = newHand
          /\ discardPile' = Append(discardPile, pendingAceCard)
          /\ currentSuit' = suit
          /\ showSuitPicker' = FALSE
          /\ pendingAceCard' = NoCard
          /\ EndOrPass(checkGameOver(newHand, aiHand), "ai", "changedSuit")
          /\ UNCHANGED <<deck, aiHand>>
          /\ RunAiEffect(timers, isAiThinking)

\* Variant: the guard forgets the status.
handleDrawAnyStatus ==
  IF turn # "player"
  THEN UNCHANGED state
  ELSE IF Len(deck) = 0
  THEN /\ message' = "deckEmpty"
       /\ turn' = "ai"
       /\ UNCHANGED <<deck, playerHand, aiHand, discardPile, currentSuit, gameStatus,
                      showSuitPicker, pendingAceCard, confetti>>
       /\ RunAiEffect(timers, isAiThinking)
  ELSE LET newCard == deck[1]
           newDeck == Slice(deck, 1, Len(deck))
           newHand == Append(playerHand, newCard)
       IN /\ playerHand' = newHand
          /\ deck' = newDeck
          /\ message' = "youDrew"
          /\ turn' = IF ~canPlay(newCard) THEN "ai" ELSE turn
          /\ UNCHANGED <<aiHand, discardPile, currentSuit, gameStatus,
                         showSuitPicker, pendingAceCard, confetti>>
          /\ RunAiEffect(timers, isAiThinking)

\* Variant: an empty draw pile does not pass the turn.
handleDrawEmptyKeepsTurn ==
  IF turn # "player" \/ gameStatus # "playing"
  THEN UNCHANGED state
  ELSE IF Len(deck) = 0
  THEN /\ message' = "deckEmpty"
       /\ UNCHANGED <<turn, deck, playerHand, aiHand, discardPile, currentSuit, gameStatus,
                      showSuitPicker, pendingAceCard, confetti>>
       /\ RunAiEffect(timers, isAiThinking)
  ELSE LET newCard == deck[1]
           newDeck == Slice(deck, 1, Len(deck))
           newHand == Append(playerHand, newCard)
       IN /\ playerHand' = newHand
          /\ deck' = newDeck
          /\ message' = "youDrew"
          /\ turn' = IF ~canPlay(newCard) THEN "ai" ELSE turn
          /\ UNCHANGED <<aiHand, discardPile, currentSuit, gameStatus,
                         showSuitPicker, pendingAceCard, confetti>>
          /\ RunAiEffect(timers, isAiThinking)

\* Variant: the turn passes after every draw.
handleDrawAlwaysPasses ==
  IF turn # "player" \/ gameStatus # "playing"
  THEN UNCHANGED state
  ELSE IF Len(deck) = 0
  THEN /\ message' = "deckEmpty"
       /\ turn' = "ai"
       /\ UNCHANGED <<deck, playerHand, aiHand, discardPile, currentSuit, gameStatus,
                      showSuitPicker, pendingAceCard, confetti>>
       /\ RunAiEffect(timers, isAiThinking)
  ELSE LET newCard == deck[1]
           newDeck == Slice(deck, 1, Len(deck))
           newHand == Append(playerHand, newCard)
       IN /\ playerHand' = newHand
          /\ deck' = newDeck
          /\ message' = "youDrew"
          /\ turn' = "ai"
          /\ UNCHANGED <<aiHand, discardPile, currentSuit, gameStatus,
                         showSuitPicker, pendingAceCard, confetti>>
          /\ RunAiEffect(timers, isAiThinking)

handleDraw ==
  IF turn # "player" \/ gameStatus # "playing"
  THEN UNCHANGED state
  ELSE IF Len(deck) = 0
  THEN /\ message' = "deckEmpty"
       /\ turn' = "ai"
       /\ UNCHANGED <<deck, playerHand, aiHand, discardPile, currentSuit, gameStatus,
                      showSuitPicker, pendingAceCard, confetti>>
       /\ RunAiEffect(timers, isAiThinking)
  ELSE LET newCard == deck[1]
           newDeck == Slice(deck, 1, Len(deck))
           newHand == Append(playerHand, newCard)
       IN /\ playerHand' = newHand
          /\ deck' = newDeck
          /\ message' = "youDrew"
          /\ turn' = IF ~canPlay(newCard) THEN "ai" ELSE turn
          /\ UNCHANGED <<aiHand, discardPile, currentSuit, gameStatus,
                         showSuitPicker, pendingAceCard, confetti>>
          /\ RunAiEffect(timers, isAiThinking)

\* Object.keys(suitCounts): the suits of the hand in order of first occurrence.
RECURSIVE suitKeys(_)
suitKeys(hand) ==
  IF Len(hand) = 0 THEN << >>
  ELSE LET front == suitKeys(SubSeq(hand, 1, Len(hand) - 1))
           s == SuitOf(hand[Len(hand)])
       IN IF s \in Range(front) THEN front ELSE Append(front, s)

suitCounts(hand, s) == Cardinality({i \in 1..Len(hand) : SuitOf(hand[i]) = s})

\* Variant: the keys are sorted by ascending count.
RECURSIVE sortedHeadAscending(_, _)
sortedHeadAscending(hand, keys) ==
  IF Len(keys) = 1 THEN keys[1]
  ELSE LET best == sortedHeadAscending(hand, SubSeq(keys, 1, Len(keys) - 1))
           last == keys[Len(keys)]
       IN IF suitCounts(hand, last) < suitCounts(hand, best) THEN last ELSE best

\* Head of keys sorted by descending count (the sort is stable): the first key
\* no later key beats strictly.
RECURSIVE sortedHead(_, _)
sortedHead(hand, keys) ==
  IF Len(keys) = 1 THEN keys[1]
  ELSE LET best == sortedHead(hand, SubSeq(keys, 1, Len(keys) - 1))
           last == keys[Len(keys)]
       IN IF suitCounts(hand, last) > suitCounts(hand, best) THEN last ELSE best

\* Variant: no fallback when the remaining hand is empty.
bestSuitNoFallback(newAiHand) ==
  IF Len(suitKeys(newAiHand)) = 0 THEN NoSuit
  ELSE sortedHead(newAiHand, suitKeys(newAiHand))

bestSuit(newAiHand) ==
  IF Len(suitKeys(newAiHand)) = 0 THEN "hearts"
  ELSE sortedHead(newAiHand, suitKeys(newAiHand))

\* Variant: the first playable card is played, Ace or not.
cardToPlayFirst(playableCards) == playableCards[1]

\* const nonAce = playableCards.find(c => c.rank !== 'A');
\* const cardToPlay = nonAce || playableCards[0];
cardToPlay(playableCards) ==
  LET nonAces == SelectSeq(playableCards, LAMBDA c : RankOf(c) # Ace)
  IN IF Len(nonAces) > 0 THEN nonAces[1] ELSE playableCards[1]

\* Variant: a drawn card that can be played is played in the same step.
aiTimeoutPlaysDrawn(i) ==
  LET tm == timers[i]
      rest == RemoveAt(timers, i)
      playableCards == SelectSeq(tm.aiHand,
                         LAMBDA c : canPlayIn(c, tm.topDiscard, tm.currentSuit))
  IN IF Len(playableCards) > 0
     THEN LET played == cardToPlay(playableCards)
              newAiHand == Without(tm.aiHand, played)
          IN /\ aiHand' = newAiHand
             /\ discardPile' = Append(discardPile, played)
             /\ currentSuit' = IF RankOf(played) = Ace THEN bestSuit(newAiHand)
                               ELSE SuitOf(played)
             /\ EndOrPass(checkGameOver(tm.playerHand, newAiHand), "player",
                          IF RankOf(played) = Ace THEN "aiPlayedAce" ELSE "aiPlayed")
             /\ UNCHANGED <<deck, playerHand, showSuitPicker, pendingAceCard>>
             /\ RunAiEffect(rest, FALSE)
     ELSE IF Len(tm.deck) > 0
     THEN LET newCard == tm.deck[1]
              newDeck == Slice(tm.deck, 1, Len(tm.deck))
              plays == canPlayIn(newCard, tm.topDiscard, tm.currentSuit)
          IN /\ aiHand' = IF plays THEN tm.aiHand ELSE Append(tm.aiHand, newCard)
             /\ deck' = newDeck
             /\ discardPile' = IF plays THEN Append(discardPile, newCard) ELSE discardPile
             /\ currentSuit' = IF ~plays THEN currentSuit
                               ELSE IF RankOf(newCard) = Ace THEN bestSuit(tm.aiHand)
                               ELSE SuitOf(newCard)
             /\ message' = IF plays THEN "aiPlayed" ELSE "aiDrew"
             /\ turn' = "player"
             /\ UNCHANGED <<playerHand, gameStatus, showSuitPicker, pendingAceCard, confetti>>
             /\ RunAiEffect(rest, FALSE)
     ELSE /\ message' = "aiSkipped"
          /\ turn' = "player"
          /\ UNCHANGED <<deck, playerHand, aiHand, discardPile, currentSuit, gameStatus,
                         showSuitPicker, pendingAceCard, confetti>>
          /\ RunAiEffect(rest, FALSE)

\* Variant: with nothing to play and an empty draw pile the opponent keeps the
\* turn; no dependency of the effect changes, so no new timer is set.
aiTimeoutSkipKeepsTurn(i) ==
  LET tm == timers[i]
      rest == RemoveAt(timers, i)
      playableCards == SelectSeq(tm.aiHand,
                         LAMBDA c : canPlayIn(c, tm.topDiscard, tm.currentSuit))
  IN IF Len(playableCards) > 0
     THEN LET played == cardToPlay(playableCards)
              newAiHand == Without(tm.aiHand, played)
          IN /\ aiHand' = newAiHand
             /\ discardPile' = Append(discardPile, played)
             /\ currentSuit' = IF RankOf(played) = Ace THEN bestSuit(newAiHand)
                               ELSE SuitOf(played)
             /\ EndOrPass(checkGameOver(tm.playerHand, newAiHand), "player",
                          IF RankOf(played) = Ace THEN "aiPlayedAce" ELSE "aiPlayed")
             /\ UNCHANGED <<deck, playerHand, showSuitPicker, pendingAceCard>>
             /\ RunAiEffect(rest, FALSE)
     ELSE IF Len(tm.deck) > 0
     THEN LET newCard == tm.deck[1]
              newDeck == Slice(tm.deck, 1, Len(tm.deck))
              newAiHand == Append(tm.aiHand, newCard)
          IN /\ aiHand' = newAiHand
             /\ deck' = newDeck
             /\ message' = "aiDrew"
             /\ turn' = "player"
             /\ UNCHANGED <<playerHand, discardPile, currentSuit, gameStatus,
                            showSuitPicker, pendingAceCard, confetti>>
             /\ RunAiEffect(rest, FALSE)
     ELSE /\ message' = "aiSkipped"
          /\ timers' = rest
          /\ isAiThinking' = FALSE
          /\ UNCHANGED <<deck, playerHand, aiHand, discardPile, currentSuit, gameStatus,
                         turn, showSuitPicker, pendingAceCard, confetti>>

\* The timeout callback of the AI Logic effect: timer i fires and runs on the
\* values it closed over.
aiTimeout(i) ==
  LET tm == timers[i]
      rest == RemoveAt(timers, i)
      playableCards == SelectSeq(tm.aiHand,
                         LAMBDA c : canPlayIn(c, tm.topDiscard, tm.currentSuit))
  IN IF Len(playableCards) > 0
     THEN LET played == cardToPlay(playableCards)
              newAiHand == Without(tm.aiHand, played)
          IN /\ aiHand' = newAiHand
             /\ discardPile' = Append(discardPile, played)
             /\ currentSuit' = IF RankOf(played) = Ace THEN bestSuit(newAiHand)
                               ELSE SuitOf(played)
             /\ EndOrPass(checkGameOver(tm.playerHand, newAiHand), "player",
                          IF RankOf(played) = Ace THEN "aiPlayedAce" ELSE "aiPlayed")
             /\ UNCHANGED <<deck, playerHand, showSuitPicker, pendingAceCard>>
             /\ RunAiEffect(rest, FALSE)
     ELSE IF Len(tm.deck) > 0
     THEN LET newCard == tm.deck[1]
              newDeck == Slice(tm.deck, 1, Len(tm.deck))
              newAiHand == Append(tm.aiHand, newCard)
          IN /\ aiHand' = newAiHand
             /\ deck' = newDeck
             /\ message' = "aiDrew"
             /\ turn' = "player"
             /\ UNCHANGED <<playerHand, discardPile, currentSuit, gameStatus,
                            showSuitPicker, pendingAceCard, confetti>>
             /\ RunAiEffect(rest, FALSE)
     ELSE /\ message' = "aiSkipped"
          /\ turn' = "player"
          /\ UNCHANGED <<deck, playerHand, aiHand, discardPile, currentSuit, gameStatus,
                         showSuitPicker, pendingAceCard, confetti>>
          /\ RunAiEffect(rest, FALSE)

\* ---------------------------------------------------------- the machine
\* A card button of the human's hand is clicked.
PlayCard ==
  \E card \in Range(playerHand) :
    /\ handlePlayerPlay(card)
    /\ intent' = Intent("playCard", card, NoSuit)

\* A button of the suit picker is clicked.
ChooseSuit ==
  \E suit \in Suit :
    /\ handleSuitPick(suit)
    /\ intent' = Intent("chooseSuit", NoCard, suit)

\* The draw pile is clicked.
Draw ==
  /\ handleDraw
  /\ intent' = Intent("draw", NoCard, NoSuit)

\* A pending timeout fires.
AiStep ==
  \E i \in 1..Len(timers) :
    /\ aiTimeout(i)
    /\ intent' = Intent("timeout", NoCard, NoSuit)

Next ==
  \/ startGame
  \/ restart
  \/ PlayCard
  \/ ChooseSuit
  \/ Draw
  \/ AiStep

Spec == Init /\ [][Next]_vars

\* The timer set by the effect fires after its delay unless the cleanup clears
\* it: a timeout that stays pending is eventually run.
SpecFair == Spec /\ WF_vars(AiStep)

\* --------------------------------------- the opponent's decision on its own
\* The cards of S in deck order.
RECURSIVE InDeckOrder(_)
InDeckOrder(S) ==
  IF S = {} THEN << >>
  ELSE LET c == CHOOSE x \in S : \A y \in S : x <= y
       IN <<c>> \o InDeckOrder(S \ {c})

\* Opponent hands of up to MaxAiHand distinct cards, in any order.
AiHands ==
  {h \in UNION {[1..n -> Card] : n \in 1..MaxAiHand} :
     \A i, j \in 1..Len(h) : i # j => h[i] # h[j]}

\* The states in which the opponent's timeout is about to fire: any opponent
\* hand, any top discard and any effective suit that the top discard allows
\* (an Ace may have been given another suit by a chooseSuit, and then lies on
\* the card it was played on); the other cards are with the human and in the
\* draw pile.
InitAi ==
  \E hand \in AiHands :
    \E top \in Card \ Range(hand) :
      \E suit \in Suit :
        LET rest == InDeckOrder(Card \ (Range(hand) \cup {top}))
            picked == suit # SuitOf(top)
            under == IF picked THEN 1 ELSE 0
        IN /\ picked => RankOf(top) = Ace
           /\ Len(rest) >= under + 1
           /\ aiHand = hand
           /\ discardPile = IF picked THEN <<rest[1], top>> ELSE <<top>>
           /\ currentSuit = suit
           /\ playerHand = <<rest[under + 1]>>
           /\ deck = SubSeq(rest, under + 2, Len(rest))
           /\ turn = "ai"
           /\ gameStatus = "playing"
           /\ showSuitPicker = FALSE
           /\ pendingAceCard = NoCard
           /\ message = IF picked THEN "changedSuit" ELSE "aiThinking"
           /\ isAiThinking = TRUE
           /\ timers = <<Closure(aiHand, playerHand, deck, TopOf(discardPile), currentSuit)>>
           /\ confetti = 0
           /\ intent = Intent("none", NoCard, NoSuit)

SpecAi == InitAi /\ [][AiStep]_vars

\* ------------------------------------------------------------- properties
Zones == <<deck, playerHand, aiHand, discardPile>>

CardsOf(zone) == Range(zone)

Terminal == {"won", "lost"}

HumanOps == {"playCard", "chooseSuit", "draw"}

DealOps == {"start", "restart"}

\* The hands, the piles, the effective suit, the turn owner and the status.
board == <<playerHand, aiHand, deck, discardPile, currentSuit, turn, gameStatus>>

\* C1: once a game has been dealt, the draw pile, the two hands and the discard
\* pile together hold every card of the deck exactly once: their sizes sum to
\* the deck size and no card occurs twice within or across the four zones.
C1_CardConservation ==
  gameStatus # "start" =>
    /\ Len(deck) + Len(playerHand) + Len(aiHand) + Len(discardPile) = DeckSize
    /\ CardsOf(deck) \cup CardsOf(playerHand) \cup CardsOf(aiHand) \cup CardsOf(discardPile) = Card

\* Plays and draws have shifted cards: the draw pile is used up, the discard
\* pile has grown and the human holds more than the dealt hand.
C1_Witness ==
  /\ gameStatus = "playing"
  /\ Len(deck) = 0
  /\ Len(discardPile) > 2
  /\ Len(playerHand) > HandSize

\* C2: after dealing, the human hand and the opponent hand are never both empty.
C2_NeverBothEmpty ==
  gameStatus # "start" => ~(Len(playerHand) = 0 /\ Len(aiHand) = 0)

C3_TerminalIsFrozenStep ==
  gameStatus \in Terminal =>
    IF intent'.op \in DealOps
    THEN gameStatus' = "playing"
    ELSE UNCHANGED <<gameStatus, playerHand, aiHand, deck, discardPile, currentSuit>>

\* C3: from human-won or human-lost, a start/restart leads to in-progress and
\* every other intent or opponent step leaves the status, the hands, the piles
\* and the effective suit unchanged.
C3_TerminalIsFrozen == [][C3_TerminalIsFrozenStep]_vars

C4_HumanIgnoredOnAiTurnStep ==
  (turn = "ai" /\ gameStatus = "playing" /\ intent'.op \in HumanOps)
    => UNCHANGED board

\* C4: while it is the opponent's turn in a running game, playCard, draw and
\* chooseSuit leave the hands, the piles, the effective suit, the turn owner and
\* the status unchanged.
C4_HumanIgnoredOnAiTurn == [][C4_HumanIgnoredOnAiTurnStep]_vars

C5_StaleTimerDiscardedStep ==
  /\ (intent'.op \in DealOps) => (timers' = << >> /\ turn' = "player")
  /\ (intent'.op = "timeout") =>
       /\ turn = "ai"
       /\ gameStatus = "playing"
       /\ timers = <<Closure(aiHand, playerHand, deck, topDiscard, currentSuit)>>
  /\ (turn = "player" /\ turn' = "ai") => (intent'.op \in HumanOps)

\* C5: a start/restart discards every scheduled opponent decision and leaves the
\* turn with the human; a timeout only ever fires on the opponent's turn of a
\* running game with the very hands, draw pile, top discard and effective suit
\* it was scheduled with; and only a human intent passes the turn to the opponent.
C5_StaleTimerDiscarded == [][C5_StaleTimerDiscardedStep]_vars

\* A restart was issued while the opponent's decision was pending, and nothing
\* is scheduled in the new game.
C5_Witness ==
  /\ intent.op = "restart"
  /\ intent.turn = "ai"
  /\ intent.status = "playing"
  /\ timers = << >>
  /\ turn = "player"
  /\ Len(aiHand) = HandSize

\* C6: after dealing, an empty human hand means human-lost, an empty opponent
\* hand beside a non-empty human hand means human-won, and in a running game
\* both hands are non-empty.
C6_FirstToEmptyLoses ==
  gameStatus # "start" =>
    /\ (Len(playerHand) = 0) => (gameStatus = "lost")
    /\ (Len(aiHand) = 0 /\ Len(playerHand) > 0) => (gameStatus = "won")
    /\ (gameStatus = "playing") => (Len(playerHand) > 0 /\ Len(aiHand) > 0)

\* The opponent emptied its hand by a play and the human won.
C6_Witness ==
  /\ intent.op = "timeout"
  /\ Len(aiHand) = 0
  /\ Len(playerHand) > 0
  /\ gameStatus = "won"

C7_PlaySetsSuitStep ==
  /\ \A c \in Card :
       ( /\ intent'.op \notin DealOps
         /\ \/ (c \in Range(playerHand) /\ c \notin Range(playerHand'))
            \/ (c \in Range(aiHand) /\ c \notin Range(aiHand')) )
       => /\ discardPile' = Append(discardPile, c)
          /\ (RankOf(c) # Ace) => (currentSuit' = SuitOf(c))
  /\ (intent'.op = "chooseSuit" /\ pendingAceCard # NoCard)
       => (currentSuit' = intent'.suit)

\* C7: a card that leaves a hand by a play becomes the top discard, and if it is
\* not an Ace the effective suit becomes its suit; a chooseSuit(s) that
\* completes a pending Ace sets the effective suit to s.
C7_PlaySetsSuit == [][C7_PlaySetsSuitStep]_vars

\* The human completed an Ace with a suit other than the Ace's own.
C7_Witness ==
  /\ intent.op = "chooseSuit"
  /\ message = "changedSuit"
  /\ RankOf(topDiscard) = Ace
  /\ currentSuit = intent.suit
  /\ currentSuit # SuitOf(topDiscard)

TopRankIs(r) == topDiscard # NoCard /\ RankOf(topDiscard) = r

Playable(card) ==
  \/ RankOf(card) = Ace
  \/ SuitOf(card) = currentSuit
  \/ TopRankIs(RankOf(card))

\* C8 as stated: in every state, canPlay(card) holds exactly when the card is an
\* Ace, or has the effective suit, or has the top discard's rank.
C8_CanPlayEverywhere == \A card \in Card : canPlay(card) <=> Playable(card)

\* C8: whenever the discard pile is non-empty, canPlay(card) holds exactly when
\* the card is an Ace, or has the effective suit, or has the top discard's
\* rank; with an empty discard pile canPlay is false for every card.
C8_CanPlayRule ==
  \A card \in Card :
    IF topDiscard # NoCard THEN canPlay(card) <=> Playable(card) ELSE ~canPlay(card)

\* The top discard is an Ace overridden by another suit, so that some card is
\* playable by suit only, some Ace against suit and rank, and some card not at all.
C8_Witness ==
  /\ gameStatus = "playing"
  /\ currentSuit # SuitOf(topDiscard)
  /\ \E card \in Card : RankOf(card) # Ace /\ canPlay(card) /\ ~TopRankIs(RankOf(card))
  /\ \E card \in Card : RankOf(card) # Ace /\ ~canPlay(card)
  /\ \E card \in Card : RankOf(card) = Ace /\ SuitOf(card) # currentSuit /\ canPlay(card)

C9_IllegalIntentsAreNoOpsStep ==
  /\ (intent'.op = "playCard" /\ (~canPlay(intent'.card) \/ gameStatus # "playing"))
       => UNCHANGED state
  /\ (intent'.op = "draw" /\ gameStatus # "playing") => UNCHANGED state
  /\ (intent'.op = "chooseSuit" /\ pendingAceCard = NoCard) => UNCHANGED state

\* C9: playCard of an unplayable card, playCard or draw outside a running game,
\* and chooseSuit with no Ace pending leave the whole state unchanged.
C9_IllegalIntentsAreNoOps == [][C9_IllegalIntentsAreNoOpsStep]_vars

\* The human clicked a card of their hand that is not playable, on their own
\* turn of a running game.
C9_Witness ==
  /\ intent.op = "playCard"
  /\ intent.turn = "player"
  /\ intent.status = "playing"
  /\ turn = "player"
  /\ gameStatus = "playing"
  /\ intent.card \in Range(playerHand)
  /\ ~canPlay(intent.card)

\* C10: in one game confetti fires once if the human has won and never
\* otherwise, and never a second time.
C10_ConfettiOnce ==
  /\ confetti <= 1
  /\ (gameStatus = "won") => (confetti = 1)
  /\ (gameStatus \in {"start", "playing"}) => (confetti = 0)

\* C11: right after a start or restart, from whatever state it was issued, the
\* game is freshly dealt: HandSize cards in each hand, one card on the discard
\* pile, the rest of the deck in the draw pile (the four zones holding every
\* card once), the effective suit that of the seed discard, the human to move,
\* the game running, no Ace pending and the opponent not deciding.
C11_FreshDeal ==
  intent.op \in DealOps =>
    /\ Len(playerHand) = HandSize
    /\ Len(aiHand) = HandSize
    /\ Len(discardPile) = 1
    /\ Len(deck) = DeckSize - 2 * HandSize - 1
    /\ CardsOf(deck) \cup CardsOf(playerHand) \cup CardsOf(aiHand) \cup CardsOf(discardPile) = Card
    /\ currentSuit = SuitOf(discardPile[1])
    /\ turn = "player"
    /\ gameStatus = "playing"
    /\ pendingAceCard = NoCard
    /\ showSuitPicker = FALSE
    /\ isAiThinking = FALSE
    /\ timers = << >>

\* A restart was issued after the game had ended.
C11_Witness ==
  /\ intent.op = "restart"
  /\ intent.status \in Terminal
  /\ gameStatus = "playing"
  /\ Len(playerHand) = HandSize

C12_EmptyDrawPassesTurnStep ==
  (intent'.op = "draw" /\ turn = "player" /\ gameStatus = "playing" /\ Len(deck) = 0)
    => (UNCHANGED <<playerHand, aiHand, deck, discardPile>> /\ turn' = "ai")

\* C12: a draw on the human's turn of a running game with an empty draw pile
\* leaves both hands and both piles unchanged and passes the turn to the
\* opponent.
C12_EmptyDrawPassesTurn == [][C12_EmptyDrawPassesTurnStep]_vars

\* The human drew from an empty draw pile and the opponent is to move.
C12_Witness ==
  /\ intent.op = "draw"
  /\ intent.turn = "player"
  /\ intent.status = "playing"
  /\ message = "deckEmpty"
  /\ Len(deck) = 0
  /\ turn = "ai"

C13_AceOnlyPendsStep ==
  /\ ( /\ intent'.op = "playCard"
       /\ turn = "player"
       /\ gameStatus = "playing"
       /\ Playable(intent'.card)
       /\ RankOf(intent'.card) = Ace )
     => /\ UNCHANGED board
        /\ pendingAceCard' = intent'.card
        /\ showSuitPicker' = TRUE
  /\ \A c \in Card :
       ( /\ RankOf(c) = Ace
         /\ intent'.op \notin DealOps
         /\ c \in Range(playerHand)
         /\ c \notin Range(playerHand') )
       => /\ intent'.op = "chooseSuit"
          /\ pendingAceCard = c
          /\ discardPile' = Append(discardPile, c)

C14_DrawMovesFrontCardStep ==
  (intent'.op = "draw" /\ turn = "player" /\ gameStatus = "playing" /\ Len(deck) > 0)
    => /\ playerHand' = Append(playerHand, Head(deck))
       /\ deck' = Tail(deck)
       /\ UNCHANGED <<discardPile, currentSuit, aiHand>>
       /\ turn' = IF Playable(Head(deck)) THEN "player" ELSE "ai"

\* C14: a draw on the human's turn of a running game with a non-empty draw pile
\* moves exactly the front card of the draw pile to the human hand, leaves the
\* discard pile, the effective suit and the opponent hand unchanged, and passes
\* the turn to the opponent exactly when the drawn card is not playable.
C14_DrawMovesFrontCard == [][C14_DrawMovesFrontCardStep]_vars

\* The human drew a playable card that is not an Ace, holds it, and is still
\* to move.
C14_Witness ==
  /\ intent.op = "draw"
  /\ message = "youDrew"
  /\ turn = "player"
  /\ gameStatus = "playing"
  /\ Len(playerHand) > 0
  /\ RankOf(playerHand[Len(playerHand)]) # Ace
  /\ canPlay(playerHand[Len(playerHand)])

\* The positions of the opponent's playable cards.
PlayableAt == {i \in 1..Len(aiHand) : Playable(aiHand[i])}

NonWildPlayableAt == {i \in PlayableAt : RankOf(aiHand[i]) # Ace}

Least(S) == CHOOSE i \in S : \A j \in S : i <= j

\* The position the opponent is to play from.
ChosenAt ==
  IF NonWildPlayableAt # {} THEN Least(NonWildPlayableAt) ELSE Least(PlayableAt)

C15_AiPrefersNonWildStep ==
  (intent'.op = "timeout" /\ PlayableAt # {})
    => /\ aiHand' = RemoveAt(aiHand, ChosenAt)
       /\ discardPile' = Append(discardPile, aiHand[ChosenAt])
       /\ Playable(aiHand[ChosenAt])
       /\ (RankOf(aiHand[ChosenAt]) = Ace) => (NonWildPlayableAt = {})

\* C15: when the opponent's step finds a playable card in its hand, it plays the
\* first playable card that is not an Ace if there is one, else the first
\* playable Ace; the card played is playable, and is an Ace only when no
\* playable card is not.
C15_AiPrefersNonWild == [][C15_AiPrefersNonWildStep]_vars

\* The opponent played a card that is not an Ace while holding an Ace.
C15_Witness ==
  /\ intent.op = "timeout"
  /\ message = "aiPlayed"
  /\ RankOf(topDiscard) # Ace
  /\ \E i \in 1..Len(aiHand) : RankOf(aiHand[i]) = Ace

CountOf(hand, s) == Cardinality({i \in 1..Len(hand) : SuitOf(hand[i]) = s})

\* The opponent's step plays an Ace.
AiPlaysAce ==
  /\ intent'.op = "timeout"
  /\ PlayableAt # {}
  /\ Len(discardPile') = Len(discardPile) + 1
  /\ RankOf(TopOf(discardPile')) = Ace

C16_AiPicksFullestSuitStep ==
  AiPlaysAce =>
    IF Len(aiHand') = 0
    THEN currentSuit' = "hearts"
    ELSE \A s \in Suit : CountOf(aiHand', currentSuit') >= CountOf(aiHand', s)

\* C16: when the opponent plays an Ace, the effective suit becomes a suit of
\* which its remaining hand holds at least as many cards as of any other suit,
\* and hearts when the remaining hand is empty.
C16_AiPicksFullestSuit == [][C16_AiPicksFullestSuitStep]_vars

\* The opponent played an Ace and chose a suit, other than the Ace's and other
\* than hearts, of which it holds more cards than of another suit it holds.
C16_Witness ==
  /\ intent.op = "timeout"
  /\ message = "aiPlayedAce"
  /\ RankOf(topDiscard) = Ace
  /\ currentSuit # SuitOf(topDiscard)
  /\ currentSuit # "hearts"
  /\ \E s \in Suit : 0 < CountOf(aiHand, s) /\ CountOf(aiHand, s) < CountOf(aiHand, currentSuit)

C17_AiDrawsWithoutPlayingStep ==
  (intent'.op = "timeout" /\ PlayableAt = {})
    => /\ turn' = "player"
       /\ UNCHANGED <<discardPile, currentSuit, playerHand>>
       /\ IF Len(deck) > 0
          THEN aiHand' = Append(aiHand, Head(deck)) /\ deck' = Tail(deck)
          ELSE UNCHANGED <<aiHand, deck>>

C18_EffectiveSuitDefined ==
  gameStatus # "start"
    => /\ currentSuit \in Suit
       /\ (RankOf(topDiscard) # Ace => currentSuit = SuitOf(topDiscard))

\* The opponent went out on an Ace: no card was left to count, the effective
\* suit is the fallback and differs from the Ace's own suit.
C18_Witness ==
  /\ intent.op = "timeout"
  /\ aiHand = << >>
  /\ RankOf(topDiscard) = Ace
  /\ currentSuit = "hearts"
  /\ SuitOf(topDiscard) # "hearts"

C19_AiStepsOncePerTurnStep ==
  /\ Len(timers') <= 1
  /\ (timers' # << >> => (turn' = "ai" /\ gameStatus' = "playing"))
  /\ (aiHand' # aiHand => intent'.op \in DealOps \cup {"timeout"})
  /\ (intent'.op = "timeout"
        => /\ turn = "ai" /\ gameStatus = "playing"
           /\ timers' = << >>
           /\ (turn' = "player" \/ gameStatus' \in Terminal)
           /\ \/ \E c \in Range(aiHand) : aiHand' = Without(aiHand, c)
              \/ \E c \in Card : aiHand' = Append(aiHand, c)
              \/ aiHand' = aiHand)

\* C19: the opponent's decision step runs once per opponent turn.  At most one
\* timer is scheduled, and only on the opponent's turn of a running game, also
\* after the effect has been re-run; the step leaves no timer behind and ends
\* the opponent's turn (the turn passes to the human or the game ends); it
\* changes the opponent hand by at most one card, and nothing but the step or
\* a deal changes the opponent hand.
C19_AiStepsOncePerTurn == [][C19_AiStepsOncePerTurnStep]_vars

\* A suit was picked while the opponent's timer was pending: the effect's
\* dependencies changed, and one timer is scheduled, over the new values.
C19_Witness ==
  /\ intent.op = "chooseSuit"
  /\ intent.turn = "ai"
  /\ intent.status = "playing"
  /\ turn = "ai"
  /\ gameStatus = "playing"
  /\ Len(timers) = 1
  /\ timers[1] = Closure(aiHand, playerHand, deck, topDiscard, currentSuit)
  /\ RankOf(topDiscard) = Ace

\* The last change of the game was a human play that left the game running:
\* only handlePlayerPlay and handleSuitPick set these messages, and a draw, an
\* opponent step or a deal replaces them.
AwaitingAiStep ==
  gameStatus = "playing" /\ message \in {"aiThinking", "changedSuit"}

C20_PlaysAlternateStep ==
  (AwaitingAiStep /\ intent'.op \in HumanOps)
    => /\ turn = "ai"
       /\ Len(playerHand') >= Len(playerHand)

\* C20: within one game the human never removes two cards from their hand
\* without an opponent step between the two removals: after a human play that
\* left the game running it is the opponent's turn, and no playCard, draw or
\* chooseSuit takes a card out of the human hand before the opponent has moved.
C20_PlaysAlternate == [][C20_PlaysAlternateStep]_vars

\* C21: the opponent-is-deciding flag is accurate in every state: whenever
\* isAiThinking is true the turn owner is the opponent and the game is running,
\* so the flag is false in every won or lost state and after every deal.
C21_AiThinkingAccurate ==
  isAiThinking => (turn = "ai" /\ gameStatus = "playing")

\* A draw on the human's turn of a running game is accepted: it gives the human
\* a card or passes the turn.
C22_DrawAcceptedStep ==
  (intent'.op = "draw" /\ turn = "player" /\ gameStatus = "playing")
    => (playerHand' # playerHand \/ turn' = "ai")

\* C22: when the pending timeout is eventually run, every opponent's turn of a
\* running game leads to the human's turn or to a finished game (a restart
\* gives the turn to the human).  No running state is a deadlock: on the
\* opponent's turn a timeout is pending and the opponent step is enabled, and
\* on the human's turn a draw is accepted.
C22_AiTurnProgress ==
  /\ (turn = "ai" /\ gameStatus = "playing")
       ~> (turn = "player" \/ gameStatus \in Terminal)
  /\ []((turn = "ai" /\ gameStatus = "playing") => (timers # << >> /\ ENABLED AiStep))
  /\ [][C22_DrawAcceptedStep]_vars

\* The opponent had nothing to play and nothing to draw, and the turn came
\* back to the human.
C22_Witness ==
  /\ intent.op = "timeout"
  /\ message = "aiSkipped"
  /\ deck = << >>
  /\ timers = << >>
  /\ turn = "player"
  /\ gameStatus = "playing"
====
